---- MODULE Spec2Model ----
(***************************************************************************)
(* Service execution core of the API marketplace backend:                  *)
(*   - FallbackEngine   (app/core/fallback_engine.py): freshness check,    *)
(*     cache lookup, provider race, stale-serve fallback;                  *)
(*   - ServiceEngine    (app/core/service_engine.py): billing check,       *)
(*     resolution, debit, usage log, notification;                         *)
(*   - the entry points (app/api/v1/services.py, app/api/v1/rc.py) and     *)
(*     the credit allocation endpoint (app/api/v1/admin.py).               *)
(*                                                                         *)
(* Credits are Numeric(10,2) in the source; the model counts them in whole *)
(* units.  Timestamps are seconds.                                         *)
(***************************************************************************)
EXTENDS Integers, Sequences, FiniteSets, TLC

VARIABLES
    \* ---- persistent store (committed rows) ----
    total_credits,      \* users.total_credits,  [Users -> Nat]
    credits_used,       \* users.credits_used,   [Users -> Nat]
    subscriptions,      \* subscriptions rows,   [Subs -> record]
    usage_logs,         \* api_usage_logs rows,  set of records
    cache,              \* rc_data / licence_data / challan_data rows, [Domains -> record]
    \* ---- deployment ----
    configured,         \* providers whose EXTERNAL_API_n_URL is non-empty
    ormHasSuccess,      \* whether the ApiUsageLog class has a `success` attribute
    \* ---- one request per element of Calls ----
    pc,                 \* position of each request
    call,               \* request-local values (session snapshot, result, outcome)
    \* ---- admin credit allocation request ----
    apc,
    alloc,
    \* ---- one fetch_*_data call observed step by step ----
    rpc,
    res,
    \* ---- one _is_fresh evaluation ----
    fpc,
    fresh,
    \* ---- the WebSocket registry ----
    active_connections, \* ConnectionManager.active_connections: user id -> set
    ws                  \* the sockets, and each send_personal_message call

vars == <<total_credits, credits_used, subscriptions, usage_logs, cache,
          configured, ormHasSuccess, pc, call, apc, alloc, rpc, res, fpc, fresh,
          active_connections, ws>>

ledgerVars  == <<total_credits, credits_used, subscriptions, usage_logs>>
engineVars  == <<pc, call>>
allocVars   == <<apc, alloc>>
envVars     == <<cache, configured, ormHasSuccess>>
resolveVars == <<rpc, res>>
freshVars   == <<fpc, fresh>>
wsVars      == <<active_connections, ws>>

(***************************************************************************)
(* Time and freshness                                                      *)
(***************************************************************************)

SecondsPerHour == 3600

\* app/config.py: Settings
RC_DATA_TTL_HOURS      == 24
DL_DATA_TTL_HOURS      == 168
CHALLAN_DATA_TTL_HOURS == 12

Domains == {"rc", "dl", "challan"}

\* the TTL each fetch_*_data passes to _is_fresh
TTL_HOURS(domain) ==
    CASE domain = "rc"      -> RC_DATA_TTL_HOURS
      [] domain = "dl"      -> DL_DATA_TTL_HOURS
      [] domain = "challan" -> CHALLAN_DATA_TTL_HOURS

\* timedelta(hours=ttl_hours), in seconds
timedelta_hours(h) == h * SecondsPerHour

\* datetime.utcnow() at the moment of every freshness check of the model
UtcNow == 2000000

\* A fetched_at value as Python sees it:
\*   kind "none"      None
\*   kind "naive"     datetime without tzinfo; wall = its clock fields, in seconds
\*   kind "aware"     datetime with tzinfo;    wall = its clock fields, offset = utcoffset
\*   kind "malformed" a value that is not a datetime
NoneTs == [kind |-> "none", wall |-> 0, offset |-> 0]
MalformedTs == [kind |-> "malformed", wall |-> 0, offset |-> 0]
NaiveTs(wall) == [kind |-> "naive", wall |-> wall, offset |-> 0]
AwareTs(wall, offset) == [kind |-> "aware", wall |-> wall, offset |-> offset]

\* the instant (UTC seconds) a datetime denotes; naive values are UTC by the
\* convention of datetime.utcnow()
Instant(ts) == ts.wall - ts.offset

\* a DateTime(timezone=True) column read back by the driver: tz-aware, UTC
StoredTs(instant) == AwareTs(instant, 0)

is_fresh_minutes(fetched_at, ttl_hours, utcnow) ==
    IF fetched_at.kind = "none" THEN FALSE
    ELSE IF fetched_at.kind = "malformed" THEN FALSE
    ELSE LET fetched == fetched_at.wall
             age == utcnow - fetched
         IN  age < ttl_hours * 60

is_fresh_inclusive(fetched_at, ttl_hours, utcnow) ==
    IF fetched_at.kind = "none" THEN FALSE
    ELSE IF fetched_at.kind = "malformed" THEN FALSE
    ELSE LET fetched == fetched_at.wall
             age == utcnow - fetched
         IN  age <= timedelta_hours(ttl_hours)

\* FallbackEngine._is_fresh / ServiceEngine._is_fresh
\*   replace(tzinfo=None) keeps the clock fields and drops the offset
is_fresh(fetched_at, ttl_hours, utcnow) ==
    IF fetched_at.kind = "none" THEN FALSE
    ELSE IF fetched_at.kind = "malformed" THEN FALSE   \* attribute error, caught
    ELSE LET fetched == fetched_at.wall
             age == utcnow - fetched
         IN  age < timedelta_hours(ttl_hours)

(***************************************************************************)
(* Cache store rows and upstream providers                                 *)
(***************************************************************************)

None == [present |-> FALSE]

\* a row of rc_data / licence_data / challan_data for the one key of a domain
Row(fetched_at, payload) ==
    [present |-> TRUE, fetched_at |-> fetched_at, payload |-> payload]

\* _rc_model_to_dict / _licence_model_to_dict / _challan_model_to_dict:
\* the response dict built from a row
model_to_dict(row) == [success |-> TRUE, data |-> row.payload]

\* the three provider slots of _parallel_api_call, in the order the tasks
\* are appended
ProviderOrder == <<"api1", "api2", "api3">>
Providers == {ProviderOrder[i] : i \in 1..Len(ProviderOrder)}

\* aiohttp.ClientTimeout(total=5), seconds
TIMEOUT_TOTAL == 5

\* what a provider does with one request
Outcomes == {"ok", "non200", "nosuccess", "exception"}

\* response latencies of the simulation, seconds: fast, slow, never in time
Latencies == {1, 3, TIMEOUT_TOTAL + 1}

\* the body a provider answers with when it answers successfully
ProviderBody(p) == [success |-> TRUE, data |-> p]

completes_at_no_timeout(latency) == latency

\* the moment a _call_api task finishes: the response, or the timeout
completes_at(latency) == IF latency > TIMEOUT_TOTAL THEN TIMEOUT_TOTAL ELSE latency

call_api_ignores_status(p, outcome, latency) ==
    IF latency > TIMEOUT_TOTAL THEN [data |-> None, source |-> p]
    ELSE IF outcome \in {"ok", "non200"} THEN [data |-> ProviderBody(p), source |-> p]
    ELSE [data |-> None, source |-> p]

\* FallbackEngine._call_api: (data, source), data None on every failure
call_api(p, outcome, latency) ==
    IF latency > TIMEOUT_TOTAL THEN [data |-> None, source |-> p]   \* timeout raised, caught
    ELSE IF outcome = "ok" THEN [data |-> ProviderBody(p), source |-> p]
    ELSE [data |-> None, source |-> p]                   \* non-200, no success, exception

\* the task list of _parallel_api_call: configured providers in slot order
tasks_of(conf) == SelectSeq(ProviderOrder, LAMBDA p : p \in conf)

\* _parallel_api_call returning None
NoResult == [data |-> None, source |-> "none"]

first_success_head_only(results) ==
    IF results[1].data # None THEN results[1] ELSE NoResult

\* the loop over gather's results: the first successful one in task order
first_success(results) ==
    LET ok == {i \in 1..Len(results) : results[i].data # None}
    IN  IF ok = {} THEN NoResult
        ELSE results[CHOOSE i \in ok : \A j \in ok : i <= j]

\* FallbackEngine._parallel_api_call once gather has returned; outcome and
\* latency are functions of the provider
parallel_api_call(conf, outcome, latency) ==
    LET tasks == tasks_of(conf)
    IN  IF Len(tasks) = 0 THEN NoResult
        ELSE first_success([i \in 1..Len(tasks) |->
                               call_api(tasks[i], outcome[tasks[i]], latency[tasks[i]])])

NotFound == [found |-> FALSE, data |-> None, source |-> "none", invoked |-> {}]

\* fetch_*_data, first return: a row that is present and fresh is answered
\* from the store
fresh_hit(domain, db_data, utcnow) ==
    db_data.present /\ is_fresh(db_data.fetched_at, TTL_HOURS(domain), utcnow)

from_db(db_data, invoked) ==
    [found |-> TRUE, data |-> model_to_dict(db_data), source |-> "db",
     invoked |-> invoked]

after_race_no_stale(db_data, api_result, invoked) ==
    IF api_result # NoResult
    THEN [found |-> TRUE, data |-> api_result.data, source |-> api_result.source,
          invoked |-> invoked]
    ELSE [NotFound EXCEPT !.invoked = invoked]

\* fetch_*_data after _parallel_api_call has returned: the provider result,
\* else the stale row, else (None, None)
after_race(db_data, api_result, invoked) ==
    IF api_result # NoResult
    THEN [found |-> TRUE, data |-> api_result.data, source |-> api_result.source,
          invoked |-> invoked]
    ELSE IF db_data.present
    THEN from_db(db_data, invoked)
    ELSE [NotFound EXCEPT !.invoked = invoked]

\* FallbackEngine.fetch_rc_data / fetch_licence_data / fetch_challan_data as
\* one step: the (data, source) returned and the providers that were called
fetch_data(domain, db_data, conf, outcome, latency, utcnow) ==
    IF fresh_hit(domain, db_data, utcnow)
    THEN from_db(db_data, {})
    ELSE after_race(db_data, parallel_api_call(conf, outcome, latency), conf)

\* a response dict that has no "data_source" key
NoKey == "no-key"

\* a row of pan_data (and of the other tables read by one keyed select): the
\* seed scripts store data_source "db"; nothing else writes these tables
PanRow ==
    [present |-> TRUE, fetched_at |-> StoredTs(UtcNow - 1), payload |-> "row",
     data_source |-> "db"]

\* ServiceEngine._try_external_api_fallback: element 0 of what
\* _parallel_api_call returns, None when it returns None or raises
try_external_api_fallback(conf, outcome, latency) ==
    parallel_api_call(conf, outcome, latency).data

\* ServiceEngine._fetch_pan_data (and the fetchers of the same shape): the
\* row whatever its age with the row's data_source column, else the body of
\* the external fallback as it came, else HTTPException 404
fetch_pan_data(db_data, conf, outcome, latency) ==
    IF db_data.present
    THEN [found |-> TRUE, data |-> model_to_dict(db_data),
          source |-> db_data.data_source, invoked |-> {}]
    ELSE LET api_result == try_external_api_fallback(conf, outcome, latency)
         IN  IF api_result # None
             THEN [found |-> TRUE, data |-> api_result, source |-> NoKey,
                   invoked |-> conf]
             ELSE [NotFound EXCEPT !.invoked = conf]

(***************************************************************************)
(* Initial contents of the store and the deployment                        *)
(***************************************************************************)

\* rows as the seed scripts and earlier fetches leave them: absent, fetched
\* one second inside the domain's TTL, fetched one second outside it
RowClasses == {"absent", "fresh", "stale"}

RowOfClass(domain, class) ==
    CASE class = "absent" -> None
      [] class = "fresh"  ->
            Row(StoredTs(UtcNow - (timedelta_hours(TTL_HOURS(domain)) - 1)), "row")
      [] class = "stale"  ->
            Row(StoredTs(UtcNow - (timedelta_hours(TTL_HOURS(domain)) + 1)), "row")

CacheChoices == {[d \in Domains |-> RowOfClass(d, class)] : class \in RowClasses}

ConfigChoices == SUBSET Providers

NoCall == [p \in Providers |-> "none"]
NoLatency == [p \in Providers |-> 0]

(***************************************************************************)
(* One fetch_*_data call, task by task, on a simulated clock               *)
(***************************************************************************)

ResIdle ==
    [domain |-> "rc", db_data |-> None, outcome |-> NoCall, latency |-> NoLatency,
     done |-> {}, results |-> [p \in Providers |-> NoResult], clock |-> 0,
     first_ok_at |-> -1, ret |-> NotFound, returned_at |-> -1, pending_at_return |-> {},
     update_task |-> FALSE, update_done |-> FALSE]

\* lines up to the await of asyncio.gather: the store lookup, the freshness
\* test, the creation of one task per configured provider
ResolveStart(domain) ==
    /\ rpc = "idle"
    /\ LET db_data == cache[domain]
       IN  IF fresh_hit(domain, db_data, UtcNow)
           THEN /\ rpc' = "returned"
                /\ res' = [res EXCEPT !.domain = domain, !.db_data = db_data,
                                      !.ret = from_db(db_data, {}), !.returned_at = 0]
           ELSE IF Len(tasks_of(configured)) = 0
           THEN /\ rpc' = "returned"
                /\ res' = [res EXCEPT !.domain = domain, !.db_data = db_data,
                                      !.ret = after_race(db_data, NoResult, {}),
                                      !.returned_at = 0]
           ELSE \E outcome \in [configured -> Outcomes], latency \in [configured -> Latencies] :
                /\ rpc' = "gathering"
                /\ res' = [res EXCEPT
                      !.domain = domain, !.db_data = db_data,
                      !.outcome = [p \in Providers |->
                                      IF p \in configured THEN outcome[p] ELSE "none"],
                      !.latency = [p \in Providers |->
                                      IF p \in configured THEN latency[p] ELSE 0]]
    /\ UNCHANGED <<ledgerVars, engineVars, allocVars, envVars, freshVars, wsVars>>

\* one _call_api task finishes: with its response, or with the timeout
TaskComplete(p) ==
    /\ rpc = "gathering"
    /\ p \in configured \ res.done
    /\ completes_at(res.latency[p]) = res.clock
    /\ LET r == call_api(p, res.outcome[p], res.latency[p])
       IN  res' = [res EXCEPT !.done = @ \cup {p},
                              !.results[p] = r,
                              !.first_ok_at = IF r.data # None /\ @ = -1
                                              THEN res.clock ELSE @]
    /\ UNCHANGED <<rpc, ledgerVars, engineVars, allocVars, envVars, freshVars, wsVars>>

\* a second passes in which no task finishes
Tick ==
    /\ rpc = "gathering"
    /\ res.done # configured
    /\ \A p \in configured \ res.done : completes_at(res.latency[p]) > res.clock
    /\ res' = [res EXCEPT !.clock = @ + 1]
    /\ UNCHANGED <<rpc, ledgerVars, engineVars, allocVars, envVars, freshVars, wsVars>>

\* asyncio.gather(*tasks, return_exceptions=True) returns once every task
\* has finished
gather_ready(done, conf, results) == done = conf

\* gather returns; the loop picks the result; fetch_*_data returns, having
\* created the background task that is to store a provider result
GatherReturn ==
    /\ rpc = "gathering"
    /\ gather_ready(res.done, configured, res.results)
    /\ LET tasks == tasks_of(configured)
           api_result == first_success([i \in 1..Len(tasks) |-> res.results[tasks[i]]])
       IN  res' = [res EXCEPT !.ret = after_race(res.db_data, api_result, configured),
                              !.returned_at = res.clock,
                              !.pending_at_return = configured \ res.done,
                              !.update_task = (api_result # NoResult)]
    /\ rpc' = "returned"
    /\ UNCHANGED <<ledgerVars, engineVars, allocVars, envVars, freshVars, wsVars>>

\* FallbackEngine._update_rc_in_db / _update_licence_in_db /
\* _update_challan_in_db: the body logs a message and touches no row
update_in_db(store, domain, data) == store

\* the background task created by asyncio.create_task runs to its end
UpdateInDb ==
    /\ rpc = "returned"
    /\ res.update_task /\ ~res.update_done
    /\ cache' = update_in_db(cache, res.domain, res.ret.data)
    /\ res' = [res EXCEPT !.update_done = TRUE]
    /\ UNCHANGED <<rpc, configured, ormHasSuccess, ledgerVars, engineVars, allocVars,
                   freshVars, wsVars>>

(***************************************************************************)
(* One _is_fresh evaluation                                                *)
(***************************************************************************)

TTLs == {TTL_HOURS(d) : d \in Domains}

\* ages around every configured TTL, and two young ones, in seconds
Ages == {0, 1} \cup UNION {{timedelta_hours(t) - 1, timedelta_hours(t),
                            timedelta_hours(t) + 1} : t \in TTLs}

\* utcoffset of +05:30, seconds
IST_OFFSET == 19800

\* fetched_at values denoting the instant `age` seconds before UtcNow: as
\* the store returns it, as a naive UTC value, as an aware value at +05:30
FetchedAtInputs ==
    {NoneTs, MalformedTs}
    \cup {StoredTs(UtcNow - age) : age \in Ages}
    \cup {NaiveTs(UtcNow - age) : age \in Ages}
    \cup {AwareTs(UtcNow - age + IST_OFFSET, IST_OFFSET) : age \in Ages}

FreshIdle == [fetched_at |-> NoneTs, ttl_hours |-> RC_DATA_TTL_HOURS, result |-> FALSE]

FreshCheck ==
    /\ fpc = "idle"
    /\ fpc' = "done"
    /\ fresh' = [fresh EXCEPT !.result = is_fresh(fresh.fetched_at, fresh.ttl_hours, UtcNow)]
    /\ UNCHANGED <<ledgerVars, engineVars, allocVars, envVars, resolveVars, wsVars>>

(***************************************************************************)
(* Ledger rows                                                             *)
(***************************************************************************)

MaxCalls == 2
Calls == 1..MaxCalls

\* highest total_credits and credits_remaining of the model
MaxCredits == 3

Users == {"u1"}
Subs == {"s1"}
NoSub == "none"

\* the services of the model's requests and their services.price_per_call
Slugs == {"vehicle-rc-verification", "pan-verification"}
price_per_call(slug) == 2

\* the data domain a slug resolves in (_execute_service_logic)
DomainOf(slug) == IF slug = "pan-verification" THEN "pan" ELSE "rc"

\* _execute_service_logic: the fetcher the slug dispatches to
execute_service_logic(slug, store, conf, outcome, latency, utcnow) ==
    IF slug = "pan-verification"
    THEN fetch_pan_data(store[DomainOf(slug)], conf, outcome, latency)
    ELSE fetch_data(DomainOf(slug), store[DomainOf(slug)], conf, outcome, latency, utcnow)

\* result.get("data_source", "db") in execute_service
get_data_source(result) == IF result.source = NoKey THEN "db" ELSE result.source

\* NULL in a nullable column
Null == -1

\* subscriptions rows of the ledger runs: active with and without credits,
\* active but past its expires_at, cancelled
SubscriptionStatus == {"active", "expired", "cancelled"}

SubRow(user, status, expires_at, credits) ==
    [present |-> TRUE, user_id |-> user, status |-> status, expires_at |-> expires_at,
     credits_allocated |-> credits, credits_remaining |-> credits]

SubChoices ==
    {SubRow("u1", "active", NoneTs, n) : n \in {0, MaxCredits}}
    \cup {SubRow("u1", "active", StoredTs(UtcNow - 1), MaxCredits)}
    \cup {SubRow("u1", "cancelled", NoneTs, MaxCredits)}

(***************************************************************************)
(* Requests: ServiceEngine.execute_service and its callers                 *)
(***************************************************************************)

CallIdle ==
    [entry |-> "none", user |-> "u1", sub |-> NoSub, slug |-> "vehicle-rc-verification",
     l_total |-> 0, l_used |-> 0, l_remaining |-> 0, credits_before |-> 0,
     result |-> NotFound, outcome |-> "pending", payload |-> None,
     notify_failed |-> FALSE]

\* provider behaviour during a request: the providers in `ok` answer
\* successfully, the others raise; all within the timeout
Answers(ok) == [p \in Providers |-> IF p \in ok THEN "ok" ELSE "exception"]
InTime == [p \in Providers |-> 1]

\* the request is over and its session is closed: what stays is what the
\* caller got
Closed(rec, outcome, payload) ==
    [CallIdle EXCEPT !.entry = rec.entry, !.user = rec.user, !.sub = rec.sub,
                     !.slug = rec.slug, !.result = rec.result,
                     !.notify_failed = rec.notify_failed,
                     !.outcome = outcome, !.payload = payload]

\* requests are numbered in their order of arrival
Arrives(c) == pc[c] = "idle" /\ (IF c = 1 THEN TRUE ELSE pc[c - 1] # "idle")

\* parameters of ServiceEngine.execute_service without a default
ExecuteServiceParams == {"service", "api_key", "subscription", "payload"}

\* keyword arguments of the call in api/v1/services.py
HttpCallKwargs == {"service", "api_key", "payload"}

\* Python binds the arguments before the coroutine is created: a required
\* parameter that is not passed is a TypeError
binds(params, kwargs) == params \subseteq kwargs

\* attributes the declarative constructor of ApiUsageLog accepts
ApiUsageLogColumns ==
    {"id", "user_id", "api_key_id", "service_id", "subscription_id", "endpoint_type",
     "request_params", "response_status", "response_time_ms", "data_source",
     "credits_deducted", "credits_before", "credits_after", "created_at",
     "user", "api_key", "service", "subscription"}

\* keyword arguments of ApiUsageLog(...) in execute_service
EngineLogKwargs ==
    {"user_id", "api_key_id", "service_id", "subscription_id", "endpoint_type",
     "request_params", "response_status", "response_time_ms", "data_source",
     "credits_deducted", "credits_before", "credits_after", "success"}

\* the class as mapped at run time: as written, or with the `success` column
\* that the migration adds to api_usage_logs
MappedColumns == IF ormHasSuccess THEN ApiUsageLogColumns \cup {"success"}
                 ELSE ApiUsageLogColumns

\* subscription.expires_at < now, after a naive value is given tzinfo UTC
sub_expired(sub_row, utcnow) ==
    /\ sub_row.expires_at.kind # "none"
    /\ Instant(sub_row.expires_at) < utcnow

billing_check_credits_first(sub, sub_row, l_total, l_used, credits_needed) ==
    IF sub # NoSub
    THEN IF sub_row.status # "active" THEN "SubscriptionInactive"
         ELSE IF sub_row.credits_remaining < credits_needed THEN "InsufficientCredits"
         ELSE IF sub_expired(sub_row, UtcNow) THEN "SubscriptionExpired"
         ELSE "pass"
    ELSE IF l_total - l_used < credits_needed THEN "InsufficientCredits"
         ELSE "pass"

\* execute_service, step 1-2: the ValueError raised, or "pass"
billing_check(sub, sub_row, l_total, l_used, credits_needed) ==
    IF sub # NoSub
    THEN IF sub_row.status # "active" THEN "SubscriptionInactive"
         ELSE IF sub_expired(sub_row, UtcNow) THEN "SubscriptionExpired"
         ELSE IF sub_row.credits_remaining < credits_needed THEN "InsufficientCredits"
         ELSE "pass"
    ELSE IF l_total - l_used < credits_needed THEN "InsufficientCredits"
         ELSE "pass"

EngineStartDebitsFirst(c, u, sub) ==
    /\ Arrives(c)
    /\ sub \in {NoSub} \cup {x \in Subs : subscriptions[x].present /\ subscriptions[x].user_id = u}
    /\ LET slug == call[c].slug
           credits_needed == price_per_call(slug)
           l_total == total_credits[u]
           l_used == credits_used[u]
           sub_row == IF sub = NoSub THEN None ELSE subscriptions[sub]
           verdict == billing_check(sub, sub_row, l_total, l_used, credits_needed)
           base == [CallIdle EXCEPT !.entry = "engine", !.user = u, !.sub = sub,
                                    !.slug = slug, !.l_total = l_total, !.l_used = l_used,
                                    !.l_remaining = IF sub = NoSub THEN 0
                                                    ELSE sub_row.credits_remaining,
                                    !.credits_before = IF sub = NoSub THEN l_total - l_used
                                                       ELSE sub_row.credits_remaining]
       IN  IF verdict = "pass"
           THEN /\ pc' = [pc EXCEPT ![c] = "resolving"]
                /\ call' = [call EXCEPT ![c] = base]
                /\ UNCHANGED ledgerVars
           ELSE /\ pc' = [pc EXCEPT ![c] = "done"]
                /\ call' = [call EXCEPT ![c] = Closed(base, verdict, None)]
                /\ credits_used' = [credits_used EXCEPT ![u] = l_used + credits_needed]
                /\ UNCHANGED <<total_credits, subscriptions, usage_logs>>
    /\ UNCHANGED <<allocVars, envVars, resolveVars, freshVars, wsVars>>

\* execute_service from its first line to the await of _execute_service_logic:
\* the user row is read into the request's session, the subscription passed by
\* the caller is validated, the balance is compared with the price
EngineStart(c, u, sub) ==
    /\ Arrives(c)
    /\ sub \in {NoSub} \cup {x \in Subs : subscriptions[x].present /\ subscriptions[x].user_id = u}
    /\ LET slug == call[c].slug
           credits_needed == price_per_call(slug)
           l_total == total_credits[u]
           l_used == credits_used[u]
           sub_row == IF sub = NoSub THEN None ELSE subscriptions[sub]
           verdict == billing_check(sub, sub_row, l_total, l_used, credits_needed)
           base == [CallIdle EXCEPT !.entry = "engine", !.user = u, !.sub = sub,
                                    !.slug = slug, !.l_total = l_total, !.l_used = l_used,
                                    !.l_remaining = IF sub = NoSub THEN 0
                                                    ELSE sub_row.credits_remaining,
                                    !.credits_before = IF sub = NoSub THEN l_total - l_used
                                                       ELSE sub_row.credits_remaining]
       IN  IF verdict = "pass"
           THEN /\ pc' = [pc EXCEPT ![c] = "resolving"]
                /\ call' = [call EXCEPT ![c] = base]
           ELSE /\ pc' = [pc EXCEPT ![c] = "done"]
                /\ call' = [call EXCEPT ![c] = Closed(base, verdict, None)]
    /\ UNCHANGED <<ledgerVars, allocVars, envVars, resolveVars, freshVars, wsVars>>

EngineResolveBilledFirst(c) ==
    /\ pc[c] = "resolving"
    /\ \E ok \in SUBSET configured :
          LET r == execute_service_logic(call[c].slug, cache, configured, Answers(ok),
                                         InTime, UtcNow)
          IN  IF r.found
              THEN /\ pc' = [pc EXCEPT ![c] = "resolved"]
                   /\ call' = [call EXCEPT ![c].result = r]
                   /\ UNCHANGED ledgerVars
              ELSE /\ pc' = [pc EXCEPT ![c] = "done"]
                   /\ call' = [call EXCEPT ![c] =
                                  Closed([call[c] EXCEPT !.result = r], "NotFound", None)]
                   /\ credits_used' = [credits_used EXCEPT ![call[c].user] =
                                          call[c].l_used + price_per_call(call[c].slug)]
                   /\ UNCHANGED <<total_credits, subscriptions, usage_logs>>
    /\ UNCHANGED <<allocVars, envVars, resolveVars, freshVars, wsVars>>

\* the await of _execute_service_logic for the slug: the fetcher's result, or
\* its HTTPException 404 leaving execute_service
EngineResolve(c) ==
    /\ pc[c] = "resolving"
    /\ \E ok \in SUBSET configured :
          LET r == execute_service_logic(call[c].slug, cache, configured, Answers(ok),
                                         InTime, UtcNow)
          IN  IF r.found
              THEN /\ pc' = [pc EXCEPT ![c] = "resolved"]
                   /\ call' = [call EXCEPT ![c].result = r]
              ELSE /\ pc' = [pc EXCEPT ![c] = "done"]
                   /\ call' = [call EXCEPT ![c] =
                                  Closed([call[c] EXCEPT !.result = r], "NotFound", None)]
    /\ UNCHANGED <<ledgerVars, allocVars, envVars, resolveVars, freshVars, wsVars>>

\* the usage log row execute_service builds
EngineLog(c, credits_needed, credits_after) ==
    [call |-> c, user_id |-> call[c].user, subscription_id |-> call[c].sub,
     endpoint_type |-> call[c].slug, response_status |-> 200,
     data_source |-> get_data_source(call[c].result),
     credits_deducted |-> credits_needed,
     credits_before |-> call[c].credits_before,
     credits_after |-> credits_after,
     success |-> TRUE]

\* user.credits_used += credits_needed on the row object of the request's
\* session: the value flushed is the value read at the start plus the price
credits_used_update(c, credits_needed) == call[c].l_used + credits_needed

remaining_update_in_place(c, credits_needed) ==
    subscriptions[call[c].sub].credits_remaining - credits_needed

\* subscription.credits_remaining -= credits_needed on the object the caller
\* passed: the value flushed is the value the check compared, less the price
remaining_update(c, credits_needed) == call[c].l_remaining - credits_needed

on_commit_error_as_success(rec) == Closed(rec, "ok", rec.result.data)

\* the exception of a failed commit leaves execute_service; nothing catches it
\* before the endpoint's except Exception
on_commit_error(rec) == Closed(rec, "CommitError", None)

\* execute_service, steps 4-5 up to the end of the commit: the debit on the
\* session's objects, the ApiUsageLog row, the flush of both UPDATEs and the
\* INSERT, the commit.  An unknown keyword makes the constructor raise
\* TypeError before anything is flushed.
EngineCommit(c) ==
    /\ pc[c] = "resolved"
    /\ LET u == call[c].user
           sub == call[c].sub
           credits_needed == price_per_call(call[c].slug)
           new_remaining == remaining_update(c, credits_needed)
           new_used == credits_used_update(c, credits_needed)
           credits_after == IF sub # NoSub THEN new_remaining
                            ELSE call[c].l_total - new_used
       IN  IF ~(EngineLogKwargs \subseteq MappedColumns)
           THEN /\ pc' = [pc EXCEPT ![c] = "done"]
                /\ call' = [call EXCEPT ![c] = Closed(call[c], "InternalError", None)]
                /\ UNCHANGED ledgerVars
           ELSE \/ /\ pc' = [pc EXCEPT ![c] = "committed"]
                   /\ credits_used' = [credits_used EXCEPT ![u] = new_used]
                   /\ subscriptions' =
                         IF sub # NoSub
                         THEN [subscriptions EXCEPT ![sub].credits_remaining = new_remaining]
                         ELSE subscriptions
                   /\ usage_logs' = usage_logs \cup {EngineLog(c, credits_needed, credits_after)}
                   /\ UNCHANGED <<total_credits, call>>
                \* await self.db.commit() raises: the transaction is not applied
                \/ /\ pc' = [pc EXCEPT ![c] = "done"]
                   /\ call' = [call EXCEPT ![c] = on_commit_error(call[c])]
                   /\ UNCHANGED ledgerVars
    /\ UNCHANGED <<allocVars, envVars, resolveVars, freshVars, wsVars>>

EngineNotifySurfaced(c) ==
    /\ pc[c] = "committed"
    /\ \E failed \in BOOLEAN :
          call' = [call EXCEPT ![c] =
                      Closed([call[c] EXCEPT !.notify_failed = failed],
                             IF failed THEN "InternalError" ELSE "ok",
                             IF failed THEN None ELSE call[c].result.data)]
    /\ pc' = [pc EXCEPT ![c] = "done"]
    /\ UNCHANGED <<ledgerVars, allocVars, envVars, resolveVars, freshVars, wsVars>>

\* execute_service, steps 6-7: the three broadcasts inside try/except, then
\* the result is returned
EngineNotify(c) ==
    /\ pc[c] = "committed"
    /\ \E failed \in BOOLEAN :
          call' = [call EXCEPT ![c] =
                      Closed([call[c] EXCEPT !.notify_failed = failed], "ok",
                             call[c].result.data)]
    /\ pc' = [pc EXCEPT ![c] = "done"]
    /\ UNCHANGED <<ledgerVars, allocVars, envVars, resolveVars, freshVars, wsVars>>

\* POST /services/{slug} (api/v1/services.py): the call of execute_service
\* and the except clauses around it
HttpExecute(c, u) ==
    /\ Arrives(c)
    /\ ~binds(ExecuteServiceParams, HttpCallKwargs)     \* TypeError -> except Exception -> 500
    /\ pc' = [pc EXCEPT ![c] = "done"]
    /\ call' = [call EXCEPT ![c] = [CallIdle EXCEPT !.entry = "http", !.user = u,
                                                    !.outcome = "InternalError"]]
    /\ UNCHANGED <<ledgerVars, allocVars, envVars, resolveVars, freshVars, wsVars>>

\* the exception execute_service leaves with, by outcome
raised(outcome) ==
    IF outcome \in {"InsufficientCredits", "SubscriptionInactive", "SubscriptionExpired"}
    THEN "ValueError"
    ELSE IF outcome = "NotFound" THEN "HTTPException404"
    ELSE IF outcome = "InternalError" THEN "TypeError"
    ELSE IF outcome = "CommitError" THEN "SQLAlchemyError"
    ELSE "none"

\* the except clauses of the endpoint: HTTPException re-raised, ValueError
\* answered 400, any other exception 500
http_status(exc) ==
    IF exc = "none" THEN 200
    ELSE IF exc = "HTTPException404" THEN 404
    ELSE IF exc = "ValueError" THEN 400
    ELSE 500

\* POST /rc (api/v1/rc.py) inside UsageLoggerContext: fetch_rc_data, then
\* set_status / set_source, or HTTPException 404
LegacyResolve(c, u) ==
    /\ Arrives(c)
    /\ \E ok \in SUBSET configured :
          LET r == fetch_data("rc", cache["rc"], configured, Answers(ok), InTime, UtcNow)
          IN  call' = [call EXCEPT ![c] = [CallIdle EXCEPT !.entry = "legacy", !.user = u,
                                                           !.result = r]]
    /\ pc' = [pc EXCEPT ![c] = "logging"]
    /\ UNCHANGED <<ledgerVars, allocVars, envVars, resolveVars, freshVars, wsVars>>

\* the row log_api_usage builds: credits_deducted takes the column default,
\* credits_before / credits_after stay NULL, success takes the server default
LegacyLogRow(c, response_status) ==
    [call |-> c, user_id |-> call[c].user, subscription_id |-> NoSub,
     endpoint_type |-> "rc", response_status |-> response_status,
     data_source |-> IF call[c].result.found THEN call[c].result.source ELSE "unknown",
     credits_deducted |-> 1,
     credits_before |-> Null,
     credits_after |-> Null,
     success |-> FALSE]

\* UsageLoggerContext.__aexit__: status 500 when the block raised, the log
\* row is committed, then the block's return value or exception goes on
LegacyLog(c) ==
    /\ pc[c] = "logging"
    /\ LET found == call[c].result.found
           response_status == IF found THEN 200 ELSE 500
       IN  /\ usage_logs' = usage_logs \cup {LegacyLogRow(c, response_status)}
           /\ call' = [call EXCEPT ![c].outcome = IF found THEN "ok" ELSE "NotFound",
                                   ![c].payload = IF found THEN call[c].result.data ELSE None]
    /\ pc' = [pc EXCEPT ![c] = "done"]
    /\ UNCHANGED <<total_credits, credits_used, subscriptions, allocVars, envVars,
                   resolveVars, freshVars, wsVars>>

(***************************************************************************)
(* Credit allocation (api/v1/admin.py: allocate_credits_to_user)           *)
(***************************************************************************)

AllocAmounts == {1}

AllocIdle == [user |-> "u1", l_total |-> 0, amount |-> 0]

\* the user row is read into the admin request's session
AllocRead(u, amount) ==
    /\ apc = "idle"
    /\ total_credits[u] + amount <= MaxCredits
    /\ apc' = "read"
    /\ alloc' = [user |-> u, l_total |-> total_credits[u], amount |-> amount]
    /\ UNCHANGED <<ledgerVars, engineVars, envVars, resolveVars, freshVars, wsVars>>

\* user.total_credits += credits_amount, commit
AllocCommit ==
    /\ apc = "read"
    /\ total_credits' = [total_credits EXCEPT ![alloc.user] = alloc.l_total + alloc.amount]
    /\ apc' = "done"
    /\ UNCHANGED <<alloc, credits_used, subscriptions, usage_logs, engineVars, envVars,
                   resolveVars, freshVars, wsVars>>

(***************************************************************************)
(* WebSocket registry (websocket/manager.py: ConnectionManager)            *)
(***************************************************************************)

\* the WebSocket objects of the user's clients, and the tasks that call
\* send_personal_message for the user
Sockets == {"w1", "w2"}
Senders == {"t1", "t2"}

\* self.active_connections = {}
NoConnections == [u \in {} |-> {}]

\* one send_personal_message call: where it is, the connection whose
\* send_json it awaits, the elements its set iterator has yielded, its
\* `disconnected` set, the size and content of the set when the iterator was
\* made, and whether the set it iterates has been deleted from the registry
SendIdle ==
    [at |-> "idle", cur |-> "none", visited |-> {}, disconnected |-> {},
     si_used |-> 0, seen |-> {}, detached |-> FALSE]

\* failed: connections whose send_json raised; late: connections that were
\* sent a message after that
WsInit ==
    [sock |-> [w \in Sockets |-> "new"], send |-> [t \in Senders |-> SendIdle],
     failed |-> {}, late |-> {}]

\* ConnectionManager.connect for a user, after websocket.accept()
connect(conns, w, u) ==
    [x \in DOMAIN conns \cup {u} |->
        IF x = u THEN (IF u \in DOMAIN conns THEN conns[u] ELSE {}) \cup {w}
        ELSE conns[x]]

\* ConnectionManager.disconnect for a user: discard, and del of the key when
\* the set is left empty
disconnect(conns, w, u) ==
    IF u \notin DOMAIN conns THEN conns
    ELSE IF conns[u] \ {w} = {} THEN [x \in DOMAIN conns \ {u} |-> conns[x]]
    ELSE [conns EXCEPT ![u] = @ \ {w}]

\* websocket_endpoint: manager.connect
Connect(w, u) ==
    /\ ws.sock[w] = "new"
    /\ active_connections' = connect(active_connections, w, u)
    /\ ws' = [ws EXCEPT !.sock[w] = "open"]
    /\ UNCHANGED <<ledgerVars, engineVars, allocVars, envVars, resolveVars, freshVars>>

\* websocket_endpoint: receive_text raises WebSocketDisconnect, then
\* manager.disconnect.  A send that iterates the set the key held keeps that
\* set object when the key is deleted.
Disconnect(w, u) ==
    /\ ws.sock[w] = "open"
    /\ active_connections' = disconnect(active_connections, w, u)
    /\ LET deleted == u \in DOMAIN active_connections /\ u \notin DOMAIN active_connections'
       IN  ws' = [ws EXCEPT !.sock[w] = "closed",
                            !.send = [t \in Senders |->
                                         IF deleted /\ @[t].at = "sending"
                                         THEN [@[t] EXCEPT !.detached = TRUE]
                                         ELSE @[t]]]
    /\ UNCHANGED <<ledgerVars, engineVars, allocVars, envVars, resolveVars, freshVars>>

\* the second loop of send_personal_message: discard every connection of
\* `disconnected` from self.active_connections[user_id]
after_loop(t, u, w0, r) ==
    IF r.disconnected = {}
    THEN /\ ws' = [w0 EXCEPT !.send[t] = [r EXCEPT !.at = "done", !.cur = "none"]]
         /\ UNCHANGED active_connections
    ELSE IF u \notin DOMAIN active_connections
    THEN /\ ws' = [w0 EXCEPT !.send[t] = [r EXCEPT !.at = "raised", !.cur = "none"]]   \* KeyError
         /\ UNCHANGED active_connections
    ELSE /\ ws' = [w0 EXCEPT !.send[t] = [r EXCEPT !.at = "done", !.cur = "none"]]
         /\ active_connections' = [active_connections EXCEPT ![u] = @ \ r.disconnected]

\* `for connection in self.active_connections[user_id]` asking its iterator
\* for the next element: RuntimeError when the set changed size since the
\* iterator was made; else an element not yet yielded and the await of its
\* send_json, or the end of the loop.  After a change that kept the size the
\* iterator may end before it has yielded every element.
for_next(t, u, w0, r) ==
    LET current == IF r.detached THEN {} ELSE active_connections[u]
        rest == current \ r.visited
    IN  IF Cardinality(current) # r.si_used
        THEN /\ ws' = [w0 EXCEPT !.send[t] = [r EXCEPT !.at = "raised", !.cur = "none"]]
             /\ UNCHANGED active_connections
        ELSE \/ \E w \in rest :
                   /\ ws' = [w0 EXCEPT !.send[t] =
                                [r EXCEPT !.at = "sending", !.cur = w,
                                          !.visited = @ \cup {w}]]
                   /\ UNCHANGED active_connections
             \/ /\ rest = {} \/ current # r.seen
                /\ after_loop(t, u, w0, r)

\* send_personal_message from its first line to its first await
SendPersonalMessage(t, u) ==
    /\ ws.send[t].at = "idle"
    /\ IF u \notin DOMAIN active_connections
       THEN /\ ws' = [ws EXCEPT !.send[t].at = "done"]
            /\ UNCHANGED active_connections
       ELSE for_next(t, u, ws, [SendIdle EXCEPT
                                   !.si_used = Cardinality(active_connections[u]),
                                   !.seen = active_connections[u]])
    /\ UNCHANGED <<ledgerVars, engineVars, allocVars, envVars, resolveVars, freshVars>>

\* await connection.send_json(message) returns or raises (it raises on a
\* closed socket), the except clause, and the loop up to its next await
SendJsonReturns(t, u) ==
    /\ ws.send[t].at = "sending"
    /\ \E ok \in BOOLEAN :
          /\ ws.sock[ws.send[t].cur] = "closed" => ~ok
          /\ LET r == ws.send[t]
                 r1 == IF ok THEN r ELSE [r EXCEPT !.disconnected = @ \cup {r.cur}]
                 w0 == [ws EXCEPT !.failed = IF ok THEN @ ELSE @ \cup {r.cur},
                                  !.late = IF ok /\ r.cur \in ws.failed
                                           THEN @ \cup {r.cur} ELSE @]
             IN  for_next(t, u, w0, r1)
    /\ UNCHANGED <<ledgerVars, engineVars, allocVars, envVars, resolveVars, freshVars>>

(***************************************************************************)
(* Specifications                                                          *)
(***************************************************************************)

IdleLedger ==
    /\ total_credits = [u \in Users |-> 0]
    /\ credits_used = [u \in Users |-> 0]
    /\ subscriptions = [s \in Subs |-> None]
    /\ usage_logs = {}

IdleEngine ==
    /\ pc = [c \in Calls |-> "idle"]
    /\ call = [c \in Calls |-> CallIdle]
    /\ apc = "idle"
    /\ alloc = AllocIdle

IdleResolve == rpc = "off" /\ res = ResIdle
IdleFresh == fpc = "off" /\ fresh = FreshIdle
IdleWs == active_connections = NoConnections /\ ws = WsInit

\* ---- requests against the ledger ----
\* store and deployment of the ledger runs: nothing stored and one provider,
\* a fresh row and two providers, a stale row and no provider
EnvChoices ==
    {<<RowOfClass("rc", "absent"), {"api1"}>>,
     <<RowOfClass("rc", "fresh"), {"api1", "api2"}>>,
     <<RowOfClass("rc", "stale"), {}>>}

Init ==
    /\ total_credits \in [Users -> 0..MaxCredits]
    /\ credits_used = [u \in Users |-> 0]
    /\ subscriptions \in [Subs -> SubChoices]
    /\ usage_logs = {}
    /\ \E env \in EnvChoices :
          /\ cache = [d \in Domains |-> IF d = "rc" THEN env[1] ELSE None]
          /\ configured = env[2]
    /\ ormHasSuccess \in BOOLEAN
    /\ IdleEngine /\ IdleResolve /\ IdleFresh /\ IdleWs

Next ==
    \/ \E c \in Calls, u \in Users, sub \in Subs \cup {NoSub} : EngineStart(c, u, sub)
    \/ \E c \in Calls : EngineResolve(c)
    \/ \E c \in Calls : EngineCommit(c)
    \/ \E c \in Calls : EngineNotify(c)
    \/ \E c \in Calls, u \in Users : HttpExecute(c, u)
    \/ \E c \in Calls, u \in Users : LegacyResolve(c, u)
    \/ \E c \in Calls : LegacyLog(c)
    \/ \E u \in Users, amount \in AllocAmounts : AllocRead(u, amount)
    \/ AllocCommit

Spec == Init /\ [][Next]_vars

\* ---- the billing check on its own ----
\* expires_at values around now: none, UTC and naive values one second before
\* and after, the very instant, and values with the +05:30 offset whose
\* wall-clock reading lies after now while the instant lies before it
BillingExpiresAt ==
    {NoneTs, StoredTs(UtcNow - 1), StoredTs(UtcNow), StoredTs(UtcNow + 1),
     NaiveTs(UtcNow - 1), NaiveTs(UtcNow + 1),
     AwareTs(UtcNow + IST_OFFSET - 1, IST_OFFSET),
     AwareTs(UtcNow + IST_OFFSET + 1, IST_OFFSET)}

BillingSubChoices ==
    {SubRow("u1", st, e, n) :
        st \in SubscriptionStatus, e \in BillingExpiresAt, n \in 0..MaxCredits}

InitBilling ==
    /\ total_credits \in [Users -> 0..MaxCredits]
    /\ credits_used = [u \in Users |-> 0]
    /\ subscriptions \in [Subs -> BillingSubChoices]
    /\ usage_logs = {}
    /\ cache = [d \in Domains |-> RowOfClass(d, "fresh")]
    /\ configured = {}
    /\ ormHasSuccess = FALSE
    /\ IdleEngine /\ IdleResolve /\ IdleFresh /\ IdleWs

NextBilling ==
    \E c \in Calls, u \in Users, sub \in Subs \cup {NoSub} : EngineStart(c, u, sub)

SpecBilling == InitBilling /\ [][NextBilling]_vars

\* ---- execute calls and credit allocations of either sign ----
\* CreditAllocation.credits_amount is a Decimal without constraint
SignedAmounts == {-1, 1}

InitLedger ==
    /\ total_credits \in [Users -> 0..MaxCredits]
    /\ credits_used = [u \in Users |-> 0]
    /\ subscriptions = [s \in Subs |-> None]
    /\ usage_logs = {}
    /\ cache = [d \in Domains |-> RowOfClass(d, "fresh")]
    /\ configured = {}
    /\ ormHasSuccess = TRUE
    /\ IdleEngine /\ IdleResolve /\ IdleFresh /\ IdleWs

NextLedger ==
    \/ \E c \in Calls, u \in Users, sub \in Subs \cup {NoSub} : EngineStart(c, u, sub)
    \/ \E c \in Calls : EngineResolve(c)
    \/ \E c \in Calls : EngineCommit(c)
    \/ \E c \in Calls : EngineNotify(c)
    \/ \E u \in Users, amount \in SignedAmounts : AllocRead(u, amount)
    \/ AllocCommit

SpecLedger == InitLedger /\ [][NextLedger]_vars

\* ---- execute calls for either service ----
\* the slug of each request is an input; pan_data holds the row or not
InitServices ==
    /\ total_credits \in [Users -> 0..MaxCredits]
    /\ credits_used = [u \in Users |-> 0]
    /\ subscriptions = [s \in Subs |-> None]
    /\ usage_logs = {}
    /\ \E pan \in {None, PanRow}, class \in RowClasses :
          cache = [d \in Domains \cup {"pan"} |->
                      IF d = "pan" THEN pan ELSE RowOfClass(d, class)]
    /\ configured \in ConfigChoices
    /\ ormHasSuccess = TRUE
    /\ pc = [c \in Calls |-> "idle"]
    /\ call \in [Calls -> {[CallIdle EXCEPT !.slug = slug] : slug \in Slugs}]
    /\ apc = "idle"
    /\ alloc = AllocIdle
    /\ IdleResolve /\ IdleFresh /\ IdleWs

NextServices ==
    \/ \E c \in Calls, u \in Users : EngineStart(c, u, NoSub)
    \/ \E c \in Calls : EngineResolve(c)
    \/ \E c \in Calls : EngineCommit(c)
    \/ \E c \in Calls : EngineNotify(c)

SpecServices == InitServices /\ [][NextServices]_vars

\* ---- the resolver on its own ----
InitResolve ==
    /\ IdleLedger /\ IdleEngine /\ IdleFresh /\ IdleWs
    /\ cache \in CacheChoices
    /\ configured \in ConfigChoices
    /\ ormHasSuccess = FALSE
    /\ rpc = "idle"
    /\ res = ResIdle

NextResolve ==
    \/ \E d \in Domains : ResolveStart(d)
    \/ \E p \in Providers : TaskComplete(p)
    \/ Tick
    \/ GatherReturn
    \/ UpdateInDb

SpecResolve == InitResolve /\ [][NextResolve]_vars

\* one fetch_rc_data call under a fair event loop: every task and timer that
\* is ready runs (the race is the same code for the three domains)
NextResolveRc ==
    \/ ResolveStart("rc")
    \/ \E p \in Providers : TaskComplete(p)
    \/ Tick
    \/ GatherReturn
    \/ UpdateInDb

SpecResolveFair == InitResolve /\ [][NextResolveRc]_vars /\ WF_vars(NextResolveRc)

\* ---- the freshness check on its own ----
InitFresh ==
    /\ IdleLedger /\ IdleEngine /\ IdleResolve /\ IdleWs
    /\ cache = [d \in Domains |-> None]
    /\ configured = {}
    /\ ormHasSuccess = FALSE
    /\ fpc = "idle"
    /\ fresh \in [fetched_at : FetchedAtInputs, ttl_hours : TTLs, result : {FALSE}]

NextFresh == FreshCheck

SpecFresh == InitFresh /\ [][NextFresh]_vars

\* ---- the WebSocket registry on its own ----
InitWs ==
    /\ IdleLedger /\ IdleEngine /\ IdleResolve /\ IdleFresh /\ IdleWs
    /\ cache = [d \in Domains |-> None]
    /\ configured = {}
    /\ ormHasSuccess = FALSE

NextWs ==
    \/ \E w \in Sockets, u \in Users : Connect(w, u)
    \/ \E w \in Sockets, u \in Users : Disconnect(w, u)
    \/ \E t \in Senders, u \in Users : SendPersonalMessage(t, u)
    \/ \E t \in Senders, u \in Users : SendJsonReturns(t, u)

SpecWs == InitWs /\ [][NextWs]_vars

(***************************************************************************)
(* Properties of the resolver (SpecResolve)                                *)
(***************************************************************************)

\* what the inputs of the observed call say, independently of the code path
RowAge(row) == UtcNow - Instant(row.fetched_at)
RowIsFresh(domain, row) ==
    row.present /\ RowAge(row) < TTL_HOURS(domain) * SecondsPerHour
ProviderSucceeds(p) ==
    res.outcome[p] = "ok" /\ res.latency[p] <= TIMEOUT_TOTAL
Returned == rpc = "returned"

\* C6: a row that is present and fresh under its domain's TTL is returned from
\* the store, tagged "db", and no provider is called during that call.
C6_FreshServedFromCache ==
    (Returned /\ RowIsFresh(res.domain, cache[res.domain]))
        => /\ res.ret.found
           /\ res.ret.source = "db"
           /\ res.ret.data = model_to_dict(cache[res.domain])
           /\ res.ret.invoked = {}
           /\ res.done = {}

C6_Witness ==
    /\ Returned
    /\ RowIsFresh(res.domain, cache[res.domain])
    /\ configured = Providers
    /\ res.ret.source = "db"

\* C7: when a provider result is returned, the call returns at the moment the
\* first provider completed successfully, without waiting for slower ones.
C7_ReturnsAtFirstSuccess ==
    (Returned /\ res.first_ok_at # -1) => res.returned_at = res.first_ok_at

\* C8: with a stale row in the store and no provider succeeding (all fail, all
\* time out, or none is configured) the stale row is returned tagged "db".
C8_StaleServedOnTotalFailure ==
    (/\ Returned
     /\ cache[res.domain].present
     /\ ~RowIsFresh(res.domain, cache[res.domain])
     /\ \A p \in configured : ~ProviderSucceeds(p))
        => /\ res.ret.found
           /\ res.ret.source = "db"
           /\ res.ret.data = model_to_dict(cache[res.domain])

C8_Witness ==
    /\ Returned
    /\ cache[res.domain].present
    /\ ~RowIsFresh(res.domain, cache[res.domain])
    /\ configured = Providers
    /\ \A p \in configured : ~ProviderSucceeds(p)
    /\ \E p \in configured : res.latency[p] > TIMEOUT_TOTAL
    /\ \E p \in configured : res.outcome[p] = "exception" /\ res.latency[p] <= TIMEOUT_TOTAL
    /\ res.ret.source = "db"

\* C9: the call returns NotFound exactly when the store has no row for the key
\* and no configured provider succeeded; otherwise it returns data and a source.
C9_NotFoundIffExhausted ==
    Returned =>
        /\ (~res.ret.found) <=>
               (~cache[res.domain].present /\ \A p \in configured : ~ProviderSucceeds(p))
        /\ res.ret.found => (res.ret.data # None /\ res.ret.source \in {"db"} \cup Providers)
        /\ ~res.ret.found => (res.ret.data = None /\ res.ret.source = "none")

C9_Witness ==
    /\ Returned
    /\ ~res.ret.found
    /\ ~cache[res.domain].present
    /\ configured = Providers
    /\ res.done = Providers

(***************************************************************************)
(* Properties of the freshness check (SpecFresh)                           *)
(***************************************************************************)

IsUtcDatetime(ts) == ts.kind \in {"naive", "aware"} /\ ts.offset = 0
FreshAge == UtcNow - Instant(fresh.fetched_at)

\* C10: for a UTC fetched_at, the check answers true exactly when
\* now - fetched_at < ttl; at 24h, 168h and 12h a row fetched ttl - 1s ago is
\* fresh, one fetched exactly ttl ago or ttl + 1s ago is not.
C10_FreshIffYoungerThanTtl ==
    /\ TTLs = {24, 168, 12}
    /\ (fpc = "done" /\ IsUtcDatetime(fresh.fetched_at)) =>
          /\ fresh.result <=> (FreshAge < fresh.ttl_hours * 3600)
          /\ FreshAge = fresh.ttl_hours * 3600 - 1 => fresh.result
          /\ FreshAge = fresh.ttl_hours * 3600 => ~fresh.result
          /\ FreshAge = fresh.ttl_hours * 3600 + 1 => ~fresh.result

C10_Witness ==
    /\ fpc = "done"
    /\ IsUtcDatetime(fresh.fetched_at)
    /\ fresh.ttl_hours = 168
    /\ FreshAge = 168 * 3600
    /\ ~fresh.result

(***************************************************************************)
(* Properties of the ledger (Spec)                                         *)
(***************************************************************************)

RECURSIVE SumDeducted(_)
SumDeducted(rows) ==
    IF rows = {} THEN 0
    ELSE LET r == CHOOSE x \in rows : TRUE
         IN  r.credits_deducted + SumDeducted(rows \ {r})

\* usage rows of debits billed to the account itself (no subscription)
DirectDebits(u) ==
    {l \in usage_logs : l.user_id = u /\ l.success /\ l.subscription_id = NoSub}

RowsOf(c) == {l \in usage_logs : l.call = c}

Price == price_per_call("vehicle-rc-verification")

AllExecuteDone ==
    /\ \A c \in Calls : pc[c] = "done" /\ call[c].entry \in {"engine", "http"}
                        /\ call[c].sub = NoSub
    /\ apc = "idle"
    /\ RowIsFresh("rc", cache["rc"])

Min(a, b) == IF a <= b THEN a ELSE b

\* C2: when every call's data resolves, exactly floor(R/a) of the concurrent
\* calls succeed (all of them when there are fewer) and every other call is
\* rejected with InsufficientCredits; used ends at the sum of their debits.
C2_ExactlyFloorSucceed ==
    AllExecuteDone =>
        LET succeeded == {c \in Calls : call[c].outcome = "ok"}
            n == Min(MaxCalls, total_credits["u1"] \div Price)
        IN  /\ Cardinality(succeeded) = n
            /\ \A c \in Calls \ succeeded : call[c].outcome = "InsufficientCredits"
            /\ credits_used["u1"] = n * Price

\* C3: a call that returned a payload has exactly one usage row, with
\* success = true and credits_deducted = price_per_call: no entry point
\* returns resolved data without that debit.
C3_NoUnpaidDelivery ==
    \A c \in Calls :
        (pc[c] = "done" /\ call[c].outcome = "ok") =>
            /\ Cardinality(RowsOf(c)) = 1
            /\ \A l \in RowsOf(c) : l.success /\ l.credits_deducted = price_per_call(call[c].slug)

\* C4: the step in which an execute call ends in NotFound changes no
\* credits_used, no credits_remaining and no total_credits, and leaves no usage
\* row of that call: nothing was debited for it and no deduction is reported.
C4_NotFoundNotBilled ==
    [][\A c \in Calls :
          (call'[c].outcome = "NotFound" /\ call[c].outcome # "NotFound") =>
              /\ credits_used' = credits_used
              /\ subscriptions' = subscriptions
              /\ total_credits' = total_credits
              /\ call'[c].entry = "engine" =>
                    (usage_logs' = usage_logs /\ RowsOf(c) = {})]_vars

\* an execute call that passed the billing check of a funded account and then
\* found neither row nor provider result
C4_Witness ==
    \E c \in Calls :
        /\ pc[c] = "done"
        /\ call[c].entry = "engine"
        /\ call[c].outcome = "NotFound"
        /\ call[c].result.invoked # {}
        /\ total_credits[call[c].user] >= Price
        /\ credits_used[call[c].user] = 0

BillingRejections == {"InsufficientCredits", "SubscriptionInactive", "SubscriptionExpired"}

\* C11: every attempt that reached the engine and is over (success, NotFound
\* or billing rejection) has exactly one usage row.
C11_OneRowPerAttempt ==
    \A c \in Calls :
        (/\ pc[c] = "done"
         /\ call[c].entry = "engine"
         /\ call[c].outcome \in {"ok", "NotFound"} \cup BillingRejections)
            => Cardinality(RowsOf(c)) = 1

\* C12: a call made through the inbound execute entry point whose data
\* resolves (fresh row in the store) and whose account can pay ends with the
\* payload returned, never with an error; its debit and usage row are
\* committed.
C12_RunsToDone ==
    \A c \in Calls :
        (/\ pc[c] = "done"
         /\ call[c].entry = "http"
         /\ RowIsFresh("rc", cache["rc"])
         /\ \A d \in Calls \ {c} : pc[d] = "idle"
         /\ total_credits[call[c].user] >= Price)
            => /\ call[c].outcome = "ok"
               /\ call[c].payload = model_to_dict(cache["rc"])
               /\ \E l \in RowsOf(c) : l.success /\ l.credits_deducted = Price

\* C15: a billing rejection is only issued for a call whose data was resolved:
\* the check comes after resolution, so a rejected call has a resolved result.
C15_BillingAfterResolution ==
    \A c \in Calls :
        (/\ pc[c] = "done"
         /\ call[c].entry = "engine"
         /\ call[c].outcome \in BillingRejections)
            => call[c].result.found

\* C13: when a broadcast fails after the commit, the failure is swallowed:
\* the call still ends with its payload, and the committed debit and usage
\* row stay as they are.
C13_NotifierFailureSwallowed ==
    [][\A c \in Calls :
          (pc[c] = "committed" /\ pc'[c] = "done" /\ call'[c].notify_failed) =>
              /\ call'[c].outcome = "ok"
              /\ call'[c].payload = call[c].result.data
              /\ call'[c].payload # None
              /\ UNCHANGED ledgerVars
              /\ \E l \in usage_logs' : l.call = c /\ l.success]_vars

C13_Witness ==
    \E c \in Calls :
        /\ pc[c] = "done"
        /\ call[c].entry = "engine"
        /\ call[c].notify_failed
        /\ call[c].outcome = "ok"
        /\ credits_used[call[c].user] >= Price
        /\ RowsOf(c) # {}

\* C14: the step in which the billing check rejects a call changes no
\* credits_used, no credits_remaining and no other ledger row, returns no
\* payload, and leaves with a ValueError, which the endpoint answers 400 and
\* not the 404 of NotFound.
C14_RejectionDebitsNothing ==
    [][\A c \in Calls :
          (call[c].outcome = "pending" /\ call'[c].outcome \in BillingRejections) =>
              /\ UNCHANGED ledgerVars
              /\ call'[c].payload = None
              /\ raised(call'[c].outcome) = "ValueError"
              /\ http_status(raised(call'[c].outcome)) = 400
              /\ http_status(raised(call'[c].outcome)) # http_status(raised("NotFound"))]_vars

\* a subscription-scoped call has been rejected and the subscription still
\* holds all its credits
C14_Witness ==
    \E c \in Calls :
        /\ pc[c] = "done"
        /\ call[c].entry = "engine"
        /\ call[c].sub # NoSub
        /\ call[c].outcome \in BillingRejections
        /\ subscriptions[call[c].sub].credits_remaining = MaxCredits

ProviderIndex(p) == CHOOSE i \in 1..Len(ProviderOrder) : ProviderOrder[i] = p

\* C16: the provider whose result is returned completed successfully no later
\* than every other successful provider; among those that completed in the
\* same tick it is the first in enumeration order.
C16_FirstToCompleteWins ==
    (Returned /\ res.ret.source \in Providers) =>
        LET w == res.ret.source
        IN  \A q \in {p \in configured : ProviderSucceeds(p)} :
               \/ completes_at(res.latency[w]) < completes_at(res.latency[q])
               \/ /\ completes_at(res.latency[w]) = completes_at(res.latency[q])
                  /\ ProviderIndex(w) <= ProviderIndex(q)

\* C17: once the background task created for a provider's result has run, the
\* store holds a row for the key with that payload and a fetched_at inside
\* the TTL.
C17_ProviderResultCached ==
    (Returned /\ res.ret.source \in Providers /\ res.update_done) =>
        /\ cache[res.domain].present
        /\ model_to_dict(cache[res.domain]) = res.ret.data
        /\ RowIsFresh(res.domain, cache[res.domain])

(***************************************************************************)
(* Properties of the billing check (SpecBilling)                           *)
(***************************************************************************)

SubInactive(sub) == sub # NoSub /\ subscriptions[sub].status # "active"

\* expires_at is set and its instant lies before now
SubInPast(sub) ==
    /\ sub # NoSub
    /\ subscriptions[sub].expires_at.kind # "none"
    /\ UtcNow - Instant(subscriptions[sub].expires_at) > 0

BalanceShort(u, sub, a) ==
    IF sub # NoSub THEN ~(subscriptions[sub].credits_remaining >= a)
    ELSE ~(total_credits[u] - credits_used[u] >= a)

\* C18: the check of a subscription-scoped call reports SubscriptionInactive
\* when the status is not ACTIVE, else SubscriptionExpired when expires_at is
\* set and in the past (naive values read as UTC, aware values by their
\* instant), else InsufficientCredits when credits_remaining < amount; a call
\* without subscription is only checked for account remaining >= amount.
C18_ChecksInOrder ==
    [][\A c \in Calls :
          (pc[c] = "idle" /\ pc'[c] # "idle" /\ call'[c].entry = "engine") =>
              LET u == call'[c].user
                  sub == call'[c].sub
                  a == price_per_call(call'[c].slug)
                  got == call'[c].outcome
              IN  /\ (got = "SubscriptionInactive") <=> SubInactive(sub)
                  /\ (got = "SubscriptionExpired") <=>
                        (~SubInactive(sub) /\ SubInPast(sub))
                  /\ (got = "InsufficientCredits") <=>
                        (~SubInactive(sub) /\ ~SubInPast(sub) /\ BalanceShort(u, sub, a))
                  /\ (pc'[c] = "resolving") <=>
                        (~SubInactive(sub) /\ ~SubInPast(sub) /\ ~BalanceShort(u, sub, a))
                  /\ sub = NoSub => got \in {"pending", "InsufficientCredits"}]_vars

\* a call was rejected as expired on a subscription that also has too few
\* credits and whose expires_at carries a non-UTC offset
C18_Witness ==
    \E c \in Calls :
        /\ pc[c] = "done"
        /\ call[c].outcome = "SubscriptionExpired"
        /\ subscriptions[call[c].sub].credits_remaining < Price
        /\ subscriptions[call[c].sub].expires_at.offset # 0
        /\ subscriptions[call[c].sub].expires_at.wall > UtcNow

(***************************************************************************)
(* Properties of the account totals (SpecLedger)                           *)
(***************************************************************************)

\* C20: no commit lowers an account's credits_used or total_credits, and
\* neither is ever negative.
C20_TotalsMonotonic ==
    [][\A u \in Users :
          /\ credits_used'[u] >= credits_used[u]
          /\ total_credits'[u] >= total_credits[u]
          /\ credits_used'[u] >= 0
          /\ total_credits'[u] >= 0]_vars

(***************************************************************************)
(* Properties of the usage log and the source tag (Spec)                   *)
(***************************************************************************)

\* C21: an attempt that ended in NotFound or in a billing rejection has a
\* usage row that is unsuccessful, carries credits_deducted = 0 and the status
\* the caller received; no row of a failed attempt carries another amount.
C21_FailedAttemptsLoggedUnbilled ==
    \A c \in Calls :
        (/\ pc[c] = "done"
         /\ call[c].entry \in {"engine", "legacy"}
         /\ call[c].outcome \in {"NotFound"} \cup BillingRejections)
            => /\ \E l \in RowsOf(c) :
                     /\ ~l.success
                     /\ l.response_status = http_status(raised(call[c].outcome))
               /\ \A l \in RowsOf(c) : l.credits_deducted = 0

\* C22: when the commit of the debit and the usage row fails, the call ends
\* with an exception the endpoint answers 500 -- not success, NotFound or a
\* billing rejection -- no payload is returned, and neither the debit nor the
\* usage row is in the store.
C22_CommitFailureSurfaced ==
    [][\A c \in Calls :
          (pc[c] = "resolved" /\ pc'[c] = "done") =>
              /\ call'[c].outcome \notin {"ok", "NotFound"} \cup BillingRejections
              /\ http_status(raised(call'[c].outcome)) = 500
              /\ call'[c].payload = None
              /\ UNCHANGED ledgerVars
              /\ \A l \in usage_logs' : l.call # c]_vars

\* the commit of a call that had passed the check and resolved its data failed
C22_Witness ==
    \E c \in Calls :
        /\ pc[c] = "done"
        /\ call[c].outcome = "CommitError"
        /\ call[c].result.found
        /\ ormHasSuccess
        /\ RowsOf(c) = {}

(***************************************************************************)
(* Properties of provider failures and termination (SpecResolve)           *)
(***************************************************************************)

\* C23: a provider that raised, timed out, answered another status than 200
\* or a body without success counts as a non-success of that provider only:
\* whenever some configured provider succeeded in the race, the call returns
\* the result of a provider that succeeded.
C23_ProviderFailureIsolated ==
    (Returned /\ ~RowIsFresh(res.domain, cache[res.domain])) =>
        /\ \A p \in configured : ~ProviderSucceeds(p) => res.results[p].data = None
        /\ (\E p \in configured : ProviderSucceeds(p)) =>
              /\ res.ret.found
              /\ res.ret.source \in configured
              /\ res.ret.data = ProviderBody(res.ret.source)
        /\ res.ret.source \in Providers => ProviderSucceeds(res.ret.source)

\* api1 raised, api2 timed out, api3 succeeded and its result was returned
C23_Witness ==
    /\ Returned
    /\ configured = Providers
    /\ res.outcome["api1"] = "exception" /\ res.latency["api1"] <= TIMEOUT_TOTAL
    /\ res.latency["api2"] > TIMEOUT_TOTAL
    /\ ProviderSucceeds("api3")
    /\ res.ret.source = "api3"

AllTimedOut == configured # {} /\ \A p \in configured : res.latency[p] > TIMEOUT_TOTAL

\* C24: a call that waits for its providers always returns, no later than
\* the per-call timeout after it started; when every configured provider
\* timed out it returns the stale row if there is one and NotFound otherwise.
C24_ResolveTerminates ==
    /\ (rpc = "gathering") ~> Returned
    /\ [](rpc = "gathering" => res.clock <= TIMEOUT_TOTAL)
    /\ [](Returned => res.returned_at <= TIMEOUT_TOTAL)
    /\ []((Returned /\ AllTimedOut /\ ~RowIsFresh(res.domain, cache[res.domain])) =>
            IF cache[res.domain].present
            THEN res.ret = from_db(cache[res.domain], configured)
            ELSE ~res.ret.found)

\* every provider hung until the timeout and the stale row was returned then
C24_Witness ==
    /\ Returned
    /\ configured = Providers
    /\ AllTimedOut
    /\ res.returned_at = TIMEOUT_TOTAL
    /\ res.ret.source = "db"

(***************************************************************************)
(* Properties of the services behind the engine (SpecServices)             *)
(***************************************************************************)

\* where the payload of a resolved request really came from: the provider
\* whose body it is, else the store
Origin(r) ==
    IF \E p \in Providers : r.data = ProviderBody(p)
    THEN CHOOSE p \in Providers : r.data = ProviderBody(p)
    ELSE "db"

\* the request resolved a payload through the engine
EngineResolved(c) ==
    /\ call[c].entry = "engine"
    /\ pc[c] \in {"resolved", "committed", "done"}
    /\ call[c].result.found

\* C25: the source tag carried by the resolved payload and the data_source of
\* the usage record are the payload's origin: "db" for a payload built from
\* the store, the answering provider's tag for a provider's body, for every
\* service.
C25_SourceTagIsOrigin ==
    \A c \in Calls :
        EngineResolved(c) =>
            /\ call[c].result.source = Origin(call[c].result)
            /\ \A l \in RowsOf(c) : l.data_source = Origin(call[c].result)

\* the slugs whose fetcher reads its own table by key
CacheOnlySlugs == {"pan-verification"}

\* C26: a request for a service without a provider chain resolves from its
\* own table only: it calls no provider, and what it resolves is the dict of
\* the stored row.
C26_CacheOnlyResolution ==
    \A c \in Calls :
        (/\ call[c].entry = "engine"
         /\ call[c].slug \in CacheOnlySlugs
         /\ pc[c] \in {"resolved", "committed", "done"}) =>
            /\ call[c].result.invoked = {}
            /\ call[c].result.found =>
                   /\ cache["pan"].present
                   /\ call[c].result.data = model_to_dict(cache["pan"])

(***************************************************************************)
(* Representation independence of the freshness check (SpecFresh)          *)
(***************************************************************************)

\* C27: the check answers not fresh for a missing or malformed fetched_at,
\* and for a datetime it answers what it answers for the naive UTC datetime
\* of the same instant, whatever the offset the value carries.
C27_FreshnessByInstant ==
    fpc = "done" =>
        /\ fresh.fetched_at.kind \in {"none", "malformed"} => ~fresh.result
        /\ fresh.fetched_at.kind \in {"naive", "aware"} =>
              fresh.result = is_fresh(NaiveTs(Instant(fresh.fetched_at)),
                                      fresh.ttl_hours, UtcNow)

(***************************************************************************)
(* Ledger against usage log (Spec)                                         *)
(***************************************************************************)

\* C28: in every committed state the credits_used of an account is the sum
\* of credits_deducted over the account's usage rows, and every success row
\* has credits_after = credits_before - credits_deducted.
C28_LedgerMatchesLog ==
    /\ \A u \in Users :
          credits_used[u] = SumDeducted({l \in usage_logs : l.user_id = u})
    /\ \A l \in usage_logs :
          l.success => l.credits_after = l.credits_before - l.credits_deducted

(***************************************************************************)
(* Subscription balances under concurrent calls (Spec)                     *)
(***************************************************************************)

\* C29: the committed credits_remaining of a subscription is never negative
\* and never more than its credits_allocated, however the execute calls
\* billed to it interleave.
C29_SubscriptionBalanceBounded ==
    \A s \in Subs :
        subscriptions[s].present =>
            /\ subscriptions[s].credits_remaining >= 0
            /\ subscriptions[s].credits_remaining <= subscriptions[s].credits_allocated

\* two calls billed to s1 read the same credits_remaining and both committed
C29_Witness ==
    /\ \E l1, l2 \in usage_logs :
          /\ l1.call # l2.call
          /\ l1.subscription_id = "s1" /\ l2.subscription_id = "s1"
          /\ l1.credits_before = l2.credits_before
    /\ subscriptions["s1"].credits_remaining
          = subscriptions["s1"].credits_allocated - Price

(***************************************************************************)
(* Properties of the WebSocket registry (SpecWs)                           *)
(***************************************************************************)

\* no send_personal_message call has left with an exception
C30_NoSendRaised == \A t \in Senders : ws.send[t].at # "raised"

\* no connection was sent a message after a send to it had failed
C30_NoLateMessage == ws.late = {}

\* while no send is suspended, no user id maps to an empty set
C30_NoEmptySet ==
    (\A t \in Senders : ws.send[t].at # "sending") =>
        \A u \in DOMAIN active_connections : active_connections[u] # {}

\* C30: send_personal_message never raises, whatever connect and disconnect
\* do to the user's set while it is suspended; a connection whose send failed
\* is sent nothing afterwards; no user id is left mapped to an empty set.
C30_RegistryWellFormed ==
    /\ C30_NoSendRaised
    /\ C30_NoLateMessage
    /\ C30_NoEmptySet

====
